---- MODULE Spec2Model ----
(***************************************************************************)
(* Model of tables/carray.py (CArray creation and buffered range copy) and *)
(* of tables/core/group.py (HasChildren.__getitem__ and rename_node).      *)
(*                                                                         *)
(* The program is single-threaded: one variable pc holds the position of   *)
(* the one running operation, op names the operation the caller started.   *)
(* Optional Python values are sequences: None is <<>>, a value x is <<x>>. *)
(***************************************************************************)
EXTENDS Integers, Sequences, FiniteSets, TLC

\* ------------------------------------------------------------------ bounds
MaxRank == 2
MaxDim == 2
MaxN == 5
MaxStep == 3
MaxBuf == 2
MaxItemsize == 2

\* ------------------------------------------------------- program constants
\* obversion = "1.0"
obversion == "1.0"

\* CArray objects are not enlargeable, so the main dimension is the first one
\* (index 0 in Python, index 1 of a TLA+ sequence).
maindim == 1

None == <<>>
Some(x) == <<x>>
Val(o) == o[1]

\* ---------------------------------------------------------------- helpers
RECURSIVE TuplesOf(_, _)
TuplesOf(S, n) ==
  IF n = 0 THEN {<<>>}
  ELSE {Append(t, d) : t \in TuplesOf(S, n - 1), d \in S}

RECURSIVE Product(_)
Product(t) == IF t = <<>> THEN 1 ELSE Head(t) * Product(Tail(t))

\* min(t) < 1 as Python evaluates it: min of an empty sequence raises
\* ValueError, which every caller here turns into the same failure as "< 1".
MinBelowOne(t) == Len(t) = 0 \/ \E i \in 1..Len(t) : t[i] < 1

IsPrefix(s, t) == Len(s) <= Len(t) /\ SubSeq(t, 1, Len(s)) = s

\* len(xrange(start, stop, step)) for step >= 1
RangeLen(start, stop, step) ==
  IF stop <= start THEN 0 ELSE (stop - start + step - 1) \div step

\* ----------------------------------------------------------------- inputs
Shapes == UNION {TuplesOf(0..MaxDim, r) : r \in 1..MaxRank}
Atoms == {"scalar", "multidim", "notAtom"}
ByteOrders == {"little", "big"}
BackendErrors == {"HDF5ExtError", "IOError"}
Names == {"a", "b", "c", "d", "e"}
StoredNames == {"a", "b", "c"}

VARIABLES pc, op, args, obj, src, createLog, closeCalls, steps, nrowsArg,
          loc, dst, wcount, iters, err, ret, backend, renameCalls, call

vars == <<pc, op, args, obj, src, createLog, closeCalls, steps, nrowsArg,
          loc, dst, wcount, iters, err, ret, backend, renameCalls, call>>

creationVars == <<args, obj, createLog, closeCalls, steps, nrowsArg>>
copyVars == <<src, loc, dst, wcount, iters>>
groupVars == <<backend, renameCalls, call>>

\* The fields CArray.__init__ sets before any validation.
BlankObj ==
  [atom |-> "none", shape |-> None, extdim |-> -1, v_version |-> "None",
   v_new |-> FALSE, v_nrowsinbuf |-> None, v_convert |-> TRUE,
   v_chunkshape |-> None, byteorder |-> "None", v_objectID |-> None,
   handle |-> "none"]

NoArgs == [atom |-> "none", shape |-> None, chunkshape |-> None, byteorder |-> "None"]

\* The locals of _g_copyWithStats; range0 keeps the arguments as passed.
NoLoc ==
  [range0 |-> <<0, 0, 1>>, start |-> 0, stop |-> 0, step |-> 1, count |-> 0,
   nrowsinbuf |-> 1, start2 |-> 0]

\* Row i (0-based) of a source of the given shape: a known sequence of values,
\* different in every row and every column.
SrcRow(shape, i) ==
  LET w == Product(Tail(shape)) IN [j \in 1..w |-> i * w + j]

\* A ready source CArray: it went through _g_create, so no dimension is < 1,
\* and through _calc_nrowsinbuf, so _v_nrowsinbuf >= 1.
Sources ==
  {[shape |-> s, nrowsinbuf |-> nb, itemsize |-> sz, v_convert |-> TRUE]
     : s \in {<<n>> : n \in 1..MaxN} \cup {<<n, MaxDim>> : n \in 1..MaxN},
       nb \in 1..MaxBuf, sz \in 1..MaxItemsize}

\* What the backend can hold under a name: a group, a dataset with a class
\* tag, or a value that is neither.
NodeTypes ==
  {[kind |-> "Group", class |-> "GROUP"],
   [kind |-> "Dataset", class |-> "TABLE"],
   [kind |-> "Dataset", class |-> "ARRAY"],
   [kind |-> "Dataset", class |-> "CARRAY"],
   [kind |-> "Dataset", class |-> "VLARRAY"],
   [kind |-> "Other", class |-> "NONE"]}

\* The stored children of the group.
Backends == [StoredNames -> NodeTypes]

NoCall == [kind |-> "none", name |-> "none", new_name |-> "none"]

Init ==
  /\ pc = "idle"
  /\ op = "none"
  /\ args = NoArgs
  /\ obj = BlankObj
  /\ src \in Sources
  /\ createLog = <<>>
  /\ closeCalls = 0
  /\ steps = <<>>
  /\ nrowsArg = None
  /\ loc = NoLoc
  /\ dst = <<>>
  /\ wcount = <<>>
  /\ iters = <<>>
  /\ err = "None"
  /\ ret = <<>>
  /\ backend \in Backends
  /\ renameCalls = <<>>
  /\ call = NoCall

\* ------------------------------------------------- CArray.__init__ (new mode)
\* The caller's request CArray(parentNode, name, atom, shape, ..., chunkshape,
\* byteorder).  atom is never None here: every request is for a new array.
NewCArray ==
  /\ pc = "idle"
  /\ \E a \in Atoms, s \in {None} \cup {Some(t) : t \in Shapes},
        c \in {None} \cup {Some(t) : t \in Shapes},
        b \in {"None"} \cup ByteOrders :
       args' = [atom |-> a, shape |-> s, chunkshape |-> c, byteorder |-> b]
  /\ op' = "create"
  /\ pc' = "init"
  /\ UNCHANGED <<obj, createLog, closeCalls, steps, nrowsArg, err, ret>>
  /\ UNCHANGED <<copyVars, groupVars>>

\* The error the eager validation of __init__ raises for the arguments a, or
\* "None" when they pass.  The checks run in this order.
InitError(a) ==
  IF a.atom = "notAtom" THEN "ValueError"
  ELSE IF a.atom = "multidim" THEN "NotImplementedError"
  ELSE IF a.shape = None THEN "ValueError"
  ELSE IF a.chunkshape # None /\ Len(Val(a.shape)) # Len(Val(a.chunkshape))
    THEN "ValueError"
  ELSE IF a.chunkshape # None /\ MinBelowOne(Val(a.chunkshape)) THEN "ValueError"
  ELSE "None"

\* The object's fields when __init__ stops (by raising) or reaches the
\* superclass constructor: shape is assigned after the atom and shape checks,
\* _v_chunkshape after the chunkshape checks, byteorder by the superclass.
InitFields(a) ==
  LET shapeSet == a.atom = "scalar" /\ a.shape # None
      passed == InitError(a) = "None"
  IN [BlankObj EXCEPT
        !.atom = a.atom,
        !.v_new = TRUE,
        !.shape = IF shapeSet THEN a.shape ELSE None,
        !.v_chunkshape = IF passed THEN a.chunkshape ELSE None,
        !.byteorder = IF passed THEN a.byteorder ELSE "None"]

\* __init__: the validation, then the superclass constructor, which for a new
\* node goes on to _g_create.
CArrayInit ==
  /\ pc = "init"
  /\ obj' = InitFields(args)
  /\ IF InitError(args) # "None"
       THEN pc' = "raised" /\ err' = InitError(args)
       ELSE pc' = "g_create" /\ err' = err
  /\ UNCHANGED <<op, args, createLog, closeCalls, steps, nrowsArg, ret>>
  /\ UNCHANGED <<copyVars, groupVars>>

\* _g_create without its precondition: what C6 rules out.
G_createNoCheck ==
  /\ pc = "g_create"
  /\ pc' = "gcc_version"
  /\ UNCHANGED <<op, creationVars, err, ret, copyVars, groupVars>>

\* _g_create: the precondition on the shape, then the common part.
G_create ==
  /\ pc = "g_create"
  /\ IF MinBelowOne(Val(obj.shape))
       THEN pc' = "raised" /\ err' = "ValueError"
       ELSE pc' = "gcc_version" /\ err' = err
  /\ UNCHANGED <<op, creationVars, ret, copyVars, groupVars>>

\* _g_create_common, statement by statement.
StampVersion ==
  /\ pc = "gcc_version"
  /\ obj' = [obj EXCEPT !.v_version = obversion]
  /\ steps' = Append(steps, "version")
  /\ pc' = "gcc_chunkshape"
  /\ UNCHANGED <<op, args, createLog, closeCalls, nrowsArg, err, ret>>
  /\ UNCHANGED <<copyVars, groupVars>>

\* _calc_chunkshape(expectedrows, rowsize, itemsize): the planner keeps the
\* non-leading dimensions of the shape and picks a leading extent between 1
\* and the row count.
CalcChunkshapes(shape) ==
  {[shape EXCEPT ![maindim] = c] : c \in 1..shape[maindim]}

\* The planner run whether or not a chunkshape was supplied: what C7 rules
\* out.
CalcChunkshapeAlways ==
  /\ pc = "gcc_chunkshape"
  /\ \E c \in CalcChunkshapes(Val(obj.shape)) :
       obj' = [obj EXCEPT !.v_chunkshape = Some(c)]
  /\ steps' = Append(steps, "calc_chunkshape")
  /\ pc' = "gcc_nrowsinbuf"
  /\ UNCHANGED <<op, args, createLog, closeCalls, nrowsArg, err, ret>>
  /\ UNCHANGED <<copyVars, groupVars>>

\* if self._v_chunkshape is None: self._v_chunkshape = self._calc_chunkshape(...)
CalcChunkshape ==
  /\ pc = "gcc_chunkshape"
  /\ IF obj.v_chunkshape = None
       THEN /\ \E c \in CalcChunkshapes(Val(obj.shape)) :
                 obj' = [obj EXCEPT !.v_chunkshape = Some(c)]
            /\ steps' = Append(steps, "calc_chunkshape")
       ELSE UNCHANGED <<obj, steps>>
  /\ pc' = "gcc_nrowsinbuf"
  /\ UNCHANGED <<op, args, createLog, closeCalls, nrowsArg, err, ret>>
  /\ UNCHANGED <<copyVars, groupVars>>

\* _calc_nrowsinbuf(chunkshape, rowsize, itemsize): at least one row.
CalcNrowsinbuf ==
  /\ pc = "gcc_nrowsinbuf"
  /\ \E n \in 1..MaxBuf : obj' = [obj EXCEPT !.v_nrowsinbuf = Some(n)]
  /\ nrowsArg' = obj.v_chunkshape
  /\ steps' = Append(steps, "calc_nrowsinbuf")
  /\ pc' = "gcc_byteorder"
  /\ UNCHANGED <<op, args, createLog, closeCalls, err, ret>>
  /\ UNCHANGED <<copyVars, groupVars>>

\* correct_byteorder(type, sys.byteorder): the order of the platform the
\* program runs on, or "irrelevant" for a type that has no byte order.
CorrectedByteorders == ByteOrders \cup {"irrelevant"}

\* if self.byteorder is None: self.byteorder = correct_byteorder(...)
CorrectByteorder ==
  /\ pc = "gcc_byteorder"
  /\ IF obj.byteorder = "None"
       THEN \E b \in CorrectedByteorders : obj' = [obj EXCEPT !.byteorder = b]
       ELSE obj' = obj
  /\ steps' = Append(steps, "byteorder")
  /\ pc' = "gcc_try"
  /\ UNCHANGED <<op, args, createLog, closeCalls, nrowsArg, err, ret>>
  /\ UNCHANGED <<copyVars, groupVars>>

\* What the backend sees of a _createCArray call: the object's geometry as
\* it is at the call, and how the call ended ("ok" or the error it raised).
CreateRequest(outcome) ==
  [shape |-> obj.shape, chunkshape |-> obj.v_chunkshape,
   byteorder |-> obj.byteorder, version |-> obj.v_version,
   nrowsinbuf |-> obj.v_nrowsinbuf, outcome |-> outcome]

\* self._v_objectID = self._createCArray(title) succeeds; the constructor
\* returns to its caller.
CreateCArrayOk ==
  /\ pc = "gcc_try"
  /\ createLog' = Append(createLog, CreateRequest("ok"))
  /\ steps' = Append(steps, "createCArray")
  /\ obj' = [obj EXCEPT !.v_objectID = Some(Len(createLog) + 1), !.handle = "open"]
  /\ dst' = [i \in 1..Val(obj.shape)[maindim] |-> <<>>]
  /\ wcount' = [i \in 1..Val(obj.shape)[maindim] |-> 0]
  /\ pc' = IF op = "copy" THEN "copy_loop" ELSE "done"
  /\ UNCHANGED <<op, args, closeCalls, nrowsArg, err, ret>>
  /\ UNCHANGED <<src, loc, iters, groupVars>>

\* _createCArray raises: the backend's error is in flight, the dataset may be
\* partially allocated, and control is in the except clause.
CreateCArrayFails ==
  /\ pc = "gcc_try"
  /\ \E e \in BackendErrors :
       err' = e /\ createLog' = Append(createLog, CreateRequest(e))
  /\ steps' = Append(steps, "createCArray")
  /\ \E h \in {"none", "partial"} : obj' = [obj EXCEPT !.handle = h]
  /\ pc' = "gcc_except"
  /\ UNCHANGED <<op, args, closeCalls, nrowsArg, ret, copyVars, groupVars>>

\* An except clause that re-raises without closing: what C5 rules out.
ExceptNoClose ==
  /\ pc = "gcc_except"
  /\ pc' = "raised"
  /\ UNCHANGED <<op, creationVars, err, ret, copyVars, groupVars>>

\* except: self.close(flush=0); raise
ExceptCloseReraise ==
  /\ pc = "gcc_except"
  /\ closeCalls' = closeCalls + 1
  /\ obj' = [obj EXCEPT !.handle = "closed"]
  /\ pc' = "raised"
  /\ UNCHANGED <<op, args, createLog, steps, nrowsArg, err, ret, copyVars, groupVars>>

\* --------------------------------------------------- CArray._g_copyWithStats
Min(a, b) == IF a <= b THEN a ELSE b

\* _processRangeRead(start, stop, step) for integer arguments with
\* 0 <= start, 0 <= stop, 1 <= step: the range clipped to the row count.
ProcessRangeRead(start, stop, step, nrows) ==
  [start |-> Min(start, nrows), stop |-> Min(stop, nrows), step |-> step]

\* stop2 = start2 + step * nrowsinbuf; if stop2 > stop: stop2 = stop
Stop2(start2, step, nrowsinbuf, stop) ==
  IF start2 + step * nrowsinbuf > stop THEN stop ELSE start2 + step * nrowsinbuf

\* The destination offset without the division by step: what C2 rules out.
Start3NoDiv(start2, start, step) == start2 - start

\* start3 = (start2-start)/step  (integer division of non-negative integers)

Start3(start2, start, step) == (start2 - start) \div step

\* The window end without the clip to the extent: what C3 rules out.
Stop3NoClip(start3, nrowsinbuf, extent) == start3 + nrowsinbuf

\* stop3 = start3 + nrowsinbuf; if stop3 > shape[maindim]: stop3 = shape[maindim]

Stop3(start3, nrowsinbuf, extent) ==
  IF start3 + nrowsinbuf > extent THEN extent ELSE start3 + nrowsinbuf

\* The read with the step left out of the row index: what C1 rules out.
ReadSliceNoStep(shape, start2, stop2, step) ==
  LET n == shape[maindim]
      k == RangeLen(Min(start2, n), Min(stop2, n), step)
  IN [i \in 1..k |-> SrcRow(shape, Min(start2, n) + (i - 1))]

\* self.__getitem__(slices) with slices[maindim] = slice(start2, stop2, step):
\* the rows of range(start2, stop2, step) that exist in the source, in order.
ReadSlice(shape, start2, stop2, step) ==
  LET n == shape[maindim]
      k == RangeLen(Min(start2, n), Min(stop2, n), step)
  IN [i \in 1..k |-> SrcRow(shape, Min(start2, n) + (i - 1) * step)]

\* object[start3:stop3] = buf on a dataset of the given rows: the window is
\* the slice clipped to the extent; a buffer of as many rows fills it row by
\* row, a buffer of one row is broadcast over it, any other buffer is refused.
WindowLo(rows, start3) == Min(start3, Len(rows))
WindowLen(rows, start3, stop3) ==
  IF Min(stop3, Len(rows)) > WindowLo(rows, start3)
    THEN Min(stop3, Len(rows)) - WindowLo(rows, start3) ELSE 0

WriteAccepted(rows, start3, stop3, buf) ==
  Len(buf) = WindowLen(rows, start3, stop3) \/ Len(buf) = 1

InWindow(rows, start3, stop3, i) ==
  i > WindowLo(rows, start3) /\ i <= WindowLo(rows, start3) + WindowLen(rows, start3, stop3)

WriteSlice(rows, start3, stop3, buf) ==
  [i \in 1..Len(rows) |->
     IF InWindow(rows, start3, stop3, i)
       THEN IF Len(buf) = 1 THEN buf[1] ELSE buf[i - WindowLo(rows, start3)]
       ELSE rows[i]]

\* Lines 232-246: the destination shape, the buffer size, the range, the
\* conversion switched off, and the request for the destination CArray.
CopyWithStats ==
  /\ pc = "idle"
  /\ \E start \in 0..src.shape[maindim], step \in 1..MaxStep :
     \E stop \in start..src.shape[maindim] :
       LET count == RangeLen(start, stop, step)
           r == ProcessRangeRead(start, stop, step, src.shape[maindim])
       IN /\ loc' = [range0 |-> <<start, stop, step>>,
                     start |-> r.start, stop |-> r.stop, step |-> r.step,
                     count |-> count, nrowsinbuf |-> src.nrowsinbuf,
                     start2 |-> r.start]
          /\ args' = [atom |-> "scalar",
                      shape |-> Some([src.shape EXCEPT ![maindim] = count]),
                      chunkshape |-> None, byteorder |-> "None"]
  /\ src' = [src EXCEPT !.v_convert = FALSE]
  /\ op' = "copy"
  /\ pc' = "init"
  /\ UNCHANGED <<obj, createLog, closeCalls, steps, nrowsArg, err, ret>>
  /\ UNCHANGED <<dst, wcount, iters, groupVars>>

\* The window of the loop's current iteration.
CurIter ==
  LET stop2 == Stop2(loc.start2, loc.step, loc.nrowsinbuf, loc.stop)
      start3 == Start3(loc.start2, loc.start, loc.step)
      stop3 == Stop3(start3, loc.nrowsinbuf, loc.count)
  IN [start2 |-> loc.start2, stop2 |-> stop2, start3 |-> start3, stop3 |-> stop3,
      buf |-> ReadSlice(src.shape, loc.start2, stop2, loc.step)]

\* One iteration of for start2 in range(start, stop, step*nrowsinbuf): read
\* the source window, write it into the destination window.
CopyIter ==
  /\ pc = "copy_loop"
  /\ loc.start2 < loc.stop
  /\ LET it == CurIter IN
       /\ iters' = Append(iters, [start2 |-> it.start2, stop2 |-> it.stop2,
                                  start3 |-> it.start3, stop3 |-> it.stop3,
                                  nread |-> Len(it.buf)])
       /\ IF WriteAccepted(dst, it.start3, it.stop3, it.buf)
            THEN /\ dst' = WriteSlice(dst, it.start3, it.stop3, it.buf)
                 /\ wcount' = [i \in 1..Len(dst) |->
                                 IF InWindow(dst, it.start3, it.stop3, i)
                                   THEN wcount[i] + 1 ELSE wcount[i]]
                 /\ loc' = [loc EXCEPT !.start2 = loc.start2 + loc.step * loc.nrowsinbuf]
                 /\ UNCHANGED <<pc, err>>
            ELSE /\ pc' = "raised"
                 /\ err' = "ValueError"
                 /\ UNCHANGED <<dst, wcount, loc>>
  /\ UNCHANGED <<op, creationVars, src, ret, groupVars>>

\* The backend fails to read the source window.
ReadFails ==
  /\ pc = "copy_loop"
  /\ loc.start2 < loc.stop
  /\ \E e \in BackendErrors : err' = e
  /\ pc' = "raised"
  /\ UNCHANGED <<op, creationVars, copyVars, ret, groupVars>>

\* The backend fails to write the destination window.
WriteFails ==
  /\ pc = "copy_loop"
  /\ loc.start2 < loc.stop
  /\ LET it == CurIter IN
       iters' = Append(iters, [start2 |-> it.start2, stop2 |-> it.stop2,
                               start3 |-> it.start3, stop3 |-> it.stop3,
                               nread |-> Len(it.buf)])
  /\ \E e \in BackendErrors : err' = e
  /\ pc' = "raised"
  /\ UNCHANGED <<op, creationVars, src, loc, dst, wcount, ret, groupVars>>

\* After the loop: the conversion switched on again, the byte count, the
\* result.
CopyFinish ==
  /\ pc = "copy_loop"
  /\ loc.start2 >= loc.stop
  /\ src' = [src EXCEPT !.v_convert = TRUE]
  /\ ret' = Some([object |-> obj, nbytes |-> Product(src.shape) * src.itemsize])
  /\ pc' = "done"
  /\ UNCHANGED <<op, creationVars, loc, dst, wcount, iters, err, groupVars>>

\* ------------------------------------------------ HasChildren (core/group.py)
\* The wrapper __getitem__ returns for a stored node, or None when it falls
\* through to raise NotImplementedError().
Wrapper(value) ==
  IF value.kind = "Group" THEN Some("Group")
  ELSE IF value.kind = "Dataset"
    THEN IF value.class = "TABLE" THEN Some("Table")
         ELSE IF value.class = "ARRAY" THEN Some("Array")
         ELSE None
  ELSE None

GetItem ==
  /\ pc = "idle"
  /\ \E item \in DOMAIN backend :
       /\ call' = [kind |-> "item", name |-> item, new_name |-> "none"]
       /\ IF Wrapper(backend[item]) # None
            THEN pc' = "done" /\ ret' = Wrapper(backend[item]) /\ err' = err
            ELSE pc' = "raised" /\ err' = "NotImplementedError" /\ ret' = ret
  /\ op' = "getitem"
  /\ UNCHANGED <<creationVars, copyVars, backend, renameCalls>>

\* backend.rename_node(name, new_name) on the stored children.
BackendRename(b, name, new_name) ==
  [n \in (DOMAIN b \ {name}) \cup {new_name} |->
     IF n = new_name THEN b[name] ELSE b[n]]

\* rename_node(old, new_name): old is a Node, a string, or something else.
RenameNode ==
  /\ pc = "idle"
  /\ \E t \in {"Node", "str", "int"}, name \in DOMAIN backend,
        new_name \in Names \ DOMAIN backend :
       /\ call' = [kind |-> t, name |-> name, new_name |-> new_name]
       /\ IF t \in {"Node", "str"}
            THEN /\ renameCalls' = Append(renameCalls, <<name, new_name>>)
                 /\ backend' = BackendRename(backend, name, new_name)
            ELSE UNCHANGED <<backend, renameCalls>>
  /\ err' = "NotImplementedError"
  /\ pc' = "raised"
  /\ op' = "rename"
  /\ UNCHANGED <<creationVars, copyVars, ret>>

\* ---------------------------------------------------------- specifications
Construct ==
  \/ CArrayInit
  \/ G_create
  \/ StampVersion
  \/ CalcChunkshape
  \/ CalcNrowsinbuf
  \/ CorrectByteorder
  \/ CreateCArrayOk
  \/ CreateCArrayFails
  \/ ExceptCloseReraise

\* The whole program: every operation, from every initial state.  Each of
\* the three specifications after it takes the operations one group of
\* properties is about, from the initial states those operations read.
Next ==
  \/ NewCArray
  \/ Construct
  \/ CopyWithStats
  \/ CopyIter
  \/ ReadFails
  \/ WriteFails
  \/ CopyFinish
  \/ GetItem
  \/ RenameNode

Spec == Init /\ [][Next]_vars

\* Creation reads neither the source array nor the group: one of each.
FirstSource == [shape |-> <<1>>, nrowsinbuf |-> 1, itemsize |-> 1, v_convert |-> TRUE]
FirstBackend == [n \in StoredNames |-> [kind |-> "Group", class |-> "GROUP"]]

InitCreate == Init /\ src = FirstSource /\ backend = FirstBackend
NextCreate == NewCArray \/ Construct
SpecCreate == InitCreate /\ [][NextCreate]_vars

InitCopy == Init /\ backend = FirstBackend
NextCopy ==
  \/ CopyWithStats
  \/ Construct
  \/ CopyIter
  \/ ReadFails
  \/ WriteFails
  \/ CopyFinish
SpecCopy == InitCopy /\ [][NextCopy]_vars

InitGroup == Init /\ src = FirstSource
NextGroup == GetItem \/ RenameNode
SpecGroup == InitGroup /\ [][NextGroup]_vars

\* ------------------------------------------------------------- properties
\* The number of indices of range(start, stop, step), counted one by one.
CountOf(start, stop, step) ==
  Cardinality({i \in start..(stop - 1) : (i - start) % step = 0})

CopyDone == op = "copy" /\ pc = "done"

\* C1: when _g_copyWithStats(start, stop, step) completes, the destination's
\* leading extent is the number of indices of range(start, stop, step), its
\* other dimensions are the source's, and destination row i is source row
\* start + i*step.
C1_RangeCopyRoundTrip ==
  CopyDone =>
    LET start == loc.range0[1]
        stop == loc.range0[2]
        step == loc.range0[3]
        count == CountOf(start, stop, step)
    IN /\ Len(dst) = count
       /\ Val(obj.shape) = [src.shape EXCEPT ![maindim] = count]
       /\ start = 0 /\ stop = src.shape[maindim] /\ step = 1
            => count = src.shape[maindim]
       /\ start = 0 /\ stop = src.shape[maindim] /\ step = 2
            => count = (src.shape[maindim] + 1) \div 2
       /\ \A i \in 0..(count - 1) : dst[i + 1] = SrcRow(src.shape, start + i * step)

\* C1 witness: a strided copy of several rows, done in several iterations.
C1_Witness ==
  /\ CopyDone
  /\ loc.range0[3] = 2
  /\ loc.range0[1] > 0
  /\ Len(dst) >= 2
  /\ Len(iters) >= 2

\* C2: the destination write windows [start3, stop3) tile [0, count): the
\* first starts at 0, each next one starts where the previous one stopped,
\* at completion the last one stops at count, and every destination index is
\* written exactly once, in increasing order.
C2_WindowsTile ==
  op = "copy" =>
    /\ \A k \in 1..Len(iters) :
         /\ iters[k].start3 = (IF k = 1 THEN 0 ELSE iters[k - 1].stop3)
         /\ iters[k].start3 < iters[k].stop3
         /\ iters[k].stop3 <= loc.count
    /\ \A i \in 1..Len(wcount) :
         /\ wcount[i] <= 1
         /\ wcount[i] = 1 => \A j \in 1..i : wcount[j] = 1
    /\ pc = "done" =>
         /\ Len(iters) > 0
         /\ iters[Len(iters)].stop3 = loc.count
         /\ Len(wcount) = loc.count
         /\ \A i \in 1..Len(wcount) : wcount[i] = 1

\* C2 witness: a completed strided copy whose row count is no multiple of
\* nrowsinbuf, written in several windows.
C2_Witness ==
  /\ CopyDone
  /\ loc.step = 2
  /\ loc.nrowsinbuf = 2
  /\ loc.count % loc.nrowsinbuf # 0
  /\ Len(iters) >= 2

\* C3: in every iteration the number of source rows read and the length of
\* the destination write window are both at most nrowsinbuf, and are equal.
C3_BufferBounded ==
  op = "copy" =>
    \A k \in 1..Len(iters) :
      /\ iters[k].nread <= loc.nrowsinbuf
      /\ iters[k].stop3 - iters[k].start3 <= loc.nrowsinbuf
      /\ iters[k].nread = iters[k].stop3 - iters[k].start3
      /\ iters[k].nread = CountOf(iters[k].start2, iters[k].stop2, loc.step)

\* C3 witness: a range larger than the buffer, whose last window is partial.
C3_Witness ==
  /\ CopyDone
  /\ loc.count > loc.nrowsinbuf
  /\ Len(iters) >= 2
  /\ iters[Len(iters)].nread < loc.nrowsinbuf
  /\ iters[1].nread = loc.nrowsinbuf

\* C4: on every exit from _g_copyWithStats, by returning or by an error of
\* the destination's creation, of a read or of a write, the source's
\* _v_convert is True again.
C4_ConvertRestored ==
  (op = "copy" /\ pc \in {"done", "raised"}) => src.v_convert = TRUE

\* The backend's creation call was issued and failed.
CreateFailed ==
  Len(createLog) > 0 /\ createLog[Len(createLog)].outcome # "ok"

\* C5: when _createCArray fails, the CArray closes itself exactly once, the
\* backend's own error is the one raised, no object id is set, the ready
\* state is never reached and no handle stays open.
C5_CreateFailureRollback ==
  CreateFailed =>
    /\ Len(createLog) = 1
    /\ err = createLog[1].outcome
    /\ obj.v_objectID = None
    /\ \/ pc = "gcc_except" /\ closeCalls = 0
       \/ pc = "raised" /\ closeCalls = 1 /\ obj.handle = "closed"

\* C5 witness: the error has propagated after a partial allocation was closed.
C5_Witness ==
  /\ CreateFailed
  /\ pc = "raised"
  /\ closeCalls = 1
  /\ obj.handle = "closed"
  /\ err = "HDF5ExtError"

\* The requested geometry is invalid: a shape dimension below 1, or a
\* chunkshape of another rank or with a dimension below 1.
BadGeometry(a) ==
  \/ a.shape # None /\ \E i \in DOMAIN Val(a.shape) : Val(a.shape)[i] < 1
  \/ /\ a.chunkshape # None
     /\ a.shape # None
     /\ \/ Len(Val(a.chunkshape)) # Len(Val(a.shape))
        \/ \E i \in DOMAIN Val(a.chunkshape) : Val(a.chunkshape)[i] < 1

\* C6: a request with an invalid shape or chunkshape fails with an error and
\* never reaches the backend's creation call.
C6_InvalidGeometryRejected ==
  (op = "create" /\ BadGeometry(args)) =>
    /\ createLog = <<>>
    /\ obj.v_objectID = None
    /\ \/ pc \in {"init", "g_create"}
       \/ pc = "raised" /\ err \in {"ValueError", "NotImplementedError"}

\* C6 witness: a zero-dimension shape, everything else valid, rejected by
\* _g_create.
C6_Witness ==
  /\ op = "create"
  /\ pc = "raised"
  /\ args.atom = "scalar"
  /\ args.chunkshape = None
  /\ args.shape = Some(<<MaxDim, 0>>)
  /\ err = "ValueError"

\* C7: creation runs version, chunk geometry (the planner only when no
\* chunkshape was supplied), nrowsinbuf from the final chunkshape, byte order,
\* backend call, in this order; a supplied chunkshape and a requested byte
\* order reach the backend unchanged; the backend is never called with any of
\* the four unset.
C7_CreationOrder ==
  op = "create" =>
    /\ IsPrefix(steps,
         IF args.chunkshape = None
           THEN <<"version", "calc_chunkshape", "calc_nrowsinbuf", "byteorder",
                  "createCArray">>
           ELSE <<"version", "calc_nrowsinbuf", "byteorder", "createCArray">>)
    /\ \A k \in 1..Len(createLog) :
         /\ createLog[k].version = obversion
         /\ createLog[k].chunkshape # None
         /\ createLog[k].nrowsinbuf # None
         /\ createLog[k].byteorder # "None"
         /\ nrowsArg = createLog[k].chunkshape
         /\ args.chunkshape # None => createLog[k].chunkshape = args.chunkshape
         /\ args.byteorder # "None" => createLog[k].byteorder = args.byteorder

\* C7 witness: a created array with a supplied chunkshape and byte order.
C7_Witness ==
  /\ op = "create"
  /\ pc = "done"
  /\ args.chunkshape = Some(<<1, MaxDim>>)
  /\ args.shape = Some(<<MaxDim, MaxDim>>)
  /\ args.byteorder = "big"
  /\ Len(createLog) = 1
  /\ steps = <<"version", "calc_nrowsinbuf", "byteorder", "createCArray">>

\* C8: the byte count _g_copyWithStats returns is the size of the elements
\* copied, for every range, and is product(source shape) * itemsize; the
\* entity returned is the destination.
C8_BytesCopied ==
  CopyDone =>
    /\ Val(ret).object = obj
    /\ Val(ret).nbytes = Product(src.shape) * src.itemsize
    /\ Val(ret).nbytes = Len(dst) * Product(Tail(src.shape)) * src.itemsize

\* C9: indexing maps a child group to Group, a dataset tagged TABLE to Table,
\* ARRAY to Array, CARRAY to the chunked-array wrapper, and fails with
\* NotImplementedError for any other tag.
C9_Dispatch ==
  op = "getitem" =>
    LET value == backend[call.name] IN
      IF value.kind = "Group" THEN pc = "done" /\ ret = Some("Group")
      ELSE IF value.kind = "Dataset" /\ value.class = "TABLE"
        THEN pc = "done" /\ ret = Some("Table")
      ELSE IF value.kind = "Dataset" /\ value.class = "ARRAY"
        THEN pc = "done" /\ ret = Some("Array")
      ELSE IF value.kind = "Dataset" /\ value.class = "CARRAY"
        THEN pc = "done" /\ ret = Some("CArray")
      ELSE pc = "raised" /\ err = "NotImplementedError"

\* C10: rename_node with a Node or a string issues exactly one backend
\* rename and completes without raising; with anything else it raises
\* NotImplementedError and issues no backend rename.
C10_RenameCompletes ==
  op = "rename" =>
    IF call.kind \in {"Node", "str"}
      THEN Len(renameCalls) = 1 /\ pc = "done" /\ err = "None"
      ELSE renameCalls = <<>> /\ pc = "raised" /\ err = "NotImplementedError"

====
